---- MODULE Spec2Model ----
(***************************************************************************)
(* Slotted-page key-value store (saravanasai/kvstore): the Page record     *)
(* codec, the Page Manager's placement, lookup and persistence, and the    *)
(* Block Store it runs on.  Pages and disk images are modelled byte by     *)
(* byte, with the little-endian encodings and the integer widths of the    *)
(* Go code.                                                                *)
(***************************************************************************)
EXTENDS Integers, Sequences, FiniteSets, TLC

\* ------------------------------------------------------------------------
\* Program constants (src/page.go:12-20)
\* ------------------------------------------------------------------------
PageSize == 4096
HeaderSize == 16
SlotArrSize == 6
KeySize == 2
ValueSize == 2
MaxKeyBytes == 400
MaxValueBytes == 400

\* size of Page.Ptr, [PageSize - HeaderSize]byte
DataSize == PageSize - HeaderSize

\* ------------------------------------------------------------------------
\* Bounds of the exploration
\* ------------------------------------------------------------------------
\* writes to the page, or inserts, per run without injected I/O failures
MaxOps == 7
\* of which those whose input is not the filler record (KA, VA)
MaxOther == 2
\* inserts per run with injected I/O failures
MaxOpsIO == 3
\* operations of a run that inject an I/O failure: inserts and reopens, or,
\* in the step-by-step runs, single reads and writes
MaxFaults == 1
\* InsertRecord calls of a step-by-step run of one caller
MaxCalls == 6
\* InsertRecord calls of a run of two callers
MaxConc == 3

\* ------------------------------------------------------------------------
\* Inputs: a string is given by its length and a seed; its i-th byte is
\* (seed + i) % 256, so strings of different seeds differ in every byte
\* and a short string can be a proper prefix of a long one.
\* ------------------------------------------------------------------------
Str(s) == [i \in 1..s.len |-> (s.seed + i) % 256]

KA == [len |-> MaxKeyBytes, seed |-> 1]
KB == [len |-> 1, seed |-> 1]
KBig == [len |-> MaxKeyBytes + 1, seed |-> 50]
VA == [len |-> MaxValueBytes, seed |-> 100]
VB == [len |-> 5, seed |-> 200]
VBig == [len |-> MaxValueBytes + 1, seed |-> 150]
\* a third key, for the runs of two callers
KC == [len |-> 2, seed |-> 7]

Keys == {KA, KB, KBig}
Values == {VA, VB, VBig}
\* the (key, value) pairs handed to InsertRecord and WriteRecord
Inputs == {<<KA, VA>>, <<KA, VB>>, <<KB, VA>>, <<KB, VB>>, <<KBig, VB>>, <<KB, VBig>>}
Filler == <<KA, VA>>

\* ------------------------------------------------------------------------
\* Fixed-width integers.  uint16 and uint32 values are Integers reduced
\* modulo their width; a uint64 is four 16-bit limbs, least significant
\* first, so that every 8-byte field of a disk image can be decoded.
\* ------------------------------------------------------------------------
U16(x) == x % 65536

U64(n) == <<n % 65536, 0, 0, 0>>

IncU64(x) ==
  IF x[1] < 65535 THEN <<x[1] + 1, x[2], x[3], x[4]>>
  ELSE IF x[2] < 65535 THEN <<0, x[2] + 1, x[3], x[4]>>
  ELSE IF x[3] < 65535 THEN <<0, 0, x[3] + 1, x[4]>>
  ELSE <<0, 0, 0, (x[4] + 1) % 65536>>

\* n <= x for an Integer n in 0..65535 and a uint64 x
LeqU64(n, x) == x[2] # 0 \/ x[3] # 0 \/ x[4] # 0 \/ n <= x[1]

\* the uint64 fits 16 bits (every page id the program computes an offset for)
SmallU64(x) == x[2] = 0 /\ x[3] = 0 /\ x[4] = 0

\* A byte array is a sequence of bytes; the byte at offset off is b[off + 1].
\* binary.LittleEndian.Uint16 / Uint32 / Uint64 of the bytes of b at off
GetU16(b, off) == b[off + 1] + 256 * b[off + 2]
GetU32(b, off) == GetU16(b, off) + 65536 * GetU16(b, off + 2)
GetU64(b, off) == <<GetU16(b, off), GetU16(b, off + 2), GetU16(b, off + 4), GetU16(b, off + 6)>>

\* the bytes written by binary.LittleEndian.PutUint16 / PutUint32 / PutUint64
LE16(x) == <<x % 256, (x \div 256) % 256>>
LE32(x) == LE16(x % 65536) \o LE16(x \div 65536)
LE64(x) == LE16(x[1]) \o LE16(x[2]) \o LE16(x[3]) \o LE16(x[4])

\* b after copy(b[off : off+len(bytes)], bytes)
Put(b, off, bytes) ==
  SubSeq(b, 1, off) \o bytes \o SubSeq(b, off + Len(bytes) + 1, Len(b))

\* b[off : off+n]
Slice(b, off, n) == SubSeq(b, off + 1, off + n)

\* ------------------------------------------------------------------------
\* Page (src/page.go:94-220)
\* ------------------------------------------------------------------------
ZeroPtr == [i \in 1..DataSize |-> 0]

\* the Page value built by CreatePage for page id pid (DataStart left zero)
NewPage(pid) ==
  [PageId |-> pid, Count |-> 0, FreeSpace |-> PageSize - HeaderSize,
   DataStart |-> 0, Ptr |-> ZeroPtr]

GetSlot(p, index) ==
  LET slotOffset == index * SlotArrSize
  IN [offset |-> GetU16(p.Ptr, slotOffset),
      len    |-> GetU16(p.Ptr, slotOffset + 2),
      flag   |-> GetU16(p.Ptr, slotOffset + 4)]

\* mutant: the length is stored before the offset
SetSlot_MutSwap(ptr, index, slot) ==
  LET slotOffset == index * SlotArrSize
  IN Put(Put(Put(ptr, slotOffset, LE16(slot.len)),
             slotOffset + 2, LE16(slot.offset)),
         slotOffset + 4, LE16(slot.flag))
\* Ptr after SetSlot(index, slot)
SetSlot(ptr, index, slot) ==
  LET slotOffset == index * SlotArrSize
  IN Put(Put(Put(ptr, slotOffset, LE16(slot.offset)),
             slotOffset + 2, LE16(slot.len)),
         slotOffset + 4, LE16(slot.flag))

\* mutant: writePos is not advanced past the key before the value is copied
PutRecord_MutNoAdvance(ptr, writePos, key, value) ==
  Put(Put(Put(Put(ptr, writePos, LE16(U16(Len(key)))),
              writePos + 2, LE16(U16(Len(value)))),
          writePos + 4, key),
      writePos + 4, value)

\* Ptr after the four writes of the record at writePos (page.go:165-171)
PutRecord(ptr, writePos, key, value) ==
  Put(Put(Put(Put(ptr, writePos, LE16(U16(Len(key)))),
              writePos + 2, LE16(U16(Len(value)))),
          writePos + 4, key),
      writePos + 4 + Len(key), value)

\* mutant: the slot entry is not charged to FreeSpace
FreeSpaceAfter_MutNoSlot(p, recordSize) == U16(p.FreeSpace - U16(recordSize))

\* p.FreeSpace -= uint16(recordSize + SlotArrSize)
FreeSpaceAfter(p, recordSize) == U16(p.FreeSpace - U16(recordSize + SlotArrSize))

\* mutant: DataStart is initialised before the inputs are validated
WriteRecord_MutInitFirst(p, key, value) ==
  LET recordSize == KeySize + ValueSize + Len(key) + Len(value)
      q == IF p.Count = 0 THEN [p EXCEPT !.DataStart = PageSize - HeaderSize] ELSE p
      newDataStart == U16(q.DataStart - U16(recordSize))
      slot == [offset |-> newDataStart, len |-> U16(recordSize), flag |-> 0]
  IN IF Len(key) > MaxKeyBytes THEN [err |-> "key size exceeds maximum allowed", page |-> q]
     ELSE IF Len(value) > MaxValueBytes THEN [err |-> "value size exceeds maximum allowed", page |-> q]
     ELSE IF q.FreeSpace < recordSize + SlotArrSize THEN [err |-> "not enough space", page |-> q]
     ELSE IF newDataStart + recordSize > DataSize \/ (q.Count + 1) * SlotArrSize > DataSize
       THEN [err |-> "panic", page |-> q]
     ELSE [err |-> "",
           page |-> [PageId |-> q.PageId,
                     Count |-> q.Count + 1,
                     FreeSpace |-> U16(q.FreeSpace - U16(recordSize + SlotArrSize)),
                     DataStart |-> newDataStart,
                     Ptr |-> SetSlot(PutRecord(q.Ptr, newDataStart, key, value), q.Count, slot)]]

\* Page.WriteRecord: the error ("" for nil) and the page afterwards.
\* "panic" stands for the slice-bounds panic of a record or slot position
\* outside Ptr; past that test Count + 1 is far below 2^32 and cannot wrap.
WriteRecord(p, key, value) ==
  LET recordSize == KeySize + ValueSize + Len(key) + Len(value)
      ds0 == IF p.Count = 0 THEN PageSize - HeaderSize ELSE p.DataStart
      newDataStart == U16(ds0 - U16(recordSize))
      slot == [offset |-> newDataStart, len |-> U16(recordSize), flag |-> 0]
  IN IF Len(key) > MaxKeyBytes THEN [err |-> "key size exceeds maximum allowed", page |-> p]
     ELSE IF Len(value) > MaxValueBytes THEN [err |-> "value size exceeds maximum allowed", page |-> p]
     ELSE IF p.FreeSpace < recordSize + SlotArrSize THEN [err |-> "not enough space", page |-> p]
     ELSE IF newDataStart + recordSize > DataSize \/ (p.Count + 1) * SlotArrSize > DataSize
       THEN [err |-> "panic", page |-> p]
     ELSE [err |-> "",
           page |-> [PageId |-> p.PageId,
                     Count |-> p.Count + 1,
                     FreeSpace |-> FreeSpaceAfter(p, recordSize),
                     DataStart |-> newDataStart,
                     Ptr |-> SetSlot(PutRecord(p.Ptr, newDataStart, key, value), p.Count, slot)]]

\* the record stored at a slot: its key and value bytes (page.go:199-208)
RecordKey(p, slot) == Slice(p.Ptr, slot.offset + 4, GetU16(p.Ptr, slot.offset))

\* mutant: the value is read from where the key starts
RecordValue_MutNoKeySkip(p, slot) ==
  Slice(p.Ptr, slot.offset + 4, GetU16(p.Ptr, slot.offset + 2))

RecordValue(p, slot) ==
  Slice(p.Ptr, slot.offset + 4 + GetU16(p.Ptr, slot.offset), GetU16(p.Ptr, slot.offset + 2))

\* the loop of Page.ReadRecord from slot index i on
RECURSIVE ReadFrom(_, _, _)
\* mutant: a stored key matches when the key looked up is a prefix of it
ReadFrom_MutPrefix(p, key, i) ==
  IF i >= p.Count THEN [value |-> <<>>, found |-> FALSE]
  ELSE LET slot == GetSlot(p, i)
           stored == RecordKey(p, slot)
       IN IF slot.flag # 0 THEN ReadFrom(p, key, i + 1)
          ELSE IF Len(stored) >= Len(key) /\ SubSeq(stored, 1, Len(key)) = key
            THEN [value |-> RecordValue(p, slot), found |-> TRUE]
            ELSE ReadFrom(p, key, i + 1)
ReadFrom(p, key, i) ==
  IF i >= p.Count THEN [value |-> <<>>, found |-> FALSE]
  ELSE LET slot == GetSlot(p, i)
       IN IF slot.flag # 0 THEN ReadFrom(p, key, i + 1)
          ELSE IF RecordKey(p, slot) = key
            THEN [value |-> RecordValue(p, slot), found |-> TRUE]
            ELSE ReadFrom(p, key, i + 1)

\* mutant: the last matching active slot wins instead of the first
ReadRecord_MutLast(p, key) ==
  LET hits == {i \in 0..(p.Count - 1) :
                 GetSlot(p, i).flag = 0 /\ RecordKey(p, GetSlot(p, i)) = key}
      last == CHOOSE i \in hits : \A j \in hits : j <= i
  IN IF hits = {} THEN [value |-> <<>>, found |-> FALSE]
     ELSE [value |-> RecordValue(p, GetSlot(p, last)), found |-> TRUE]

ReadRecord(p, key) == ReadFrom(p, key, 0)

HasSpace(p, recordSize) == p.FreeSpace >= recordSize

\* ------------------------------------------------------------------------
\* Block Store (src/storage.go:27-45).  The file is a sequence of 4096-byte
\* blocks; every read and write of the program is one block at a block
\* boundary.  file[n + 1] is the block at byte offset n * PageSize.
\* ------------------------------------------------------------------------
ZeroImage == [i \in 1..PageSize |-> 0]

\* Disk.Read(pageNo * PageSize, PageSize): ReadAt fails with EOF past the end
\* of the file, and for the blocks in rf (injected read failures)
DiskRead(f, pageNo, rf) ==
  IF pageNo >= Len(f) \/ pageNo \in rf
    THEN [err |-> "read failed", buf |-> ZeroImage]
    ELSE [err |-> "", buf |-> f[pageNo + 1]]

\* Disk.Write(pageNo * PageSize, img): WriteAt extends the file, leaving
\* zero blocks in the gap; a failed write leaves the file as it was
DiskWrite(f, pageNo, img, fail) ==
  IF fail THEN [err |-> "write failed", file |-> f]
  ELSE IF pageNo < Len(f) THEN [err |-> "", file |-> [f EXCEPT ![pageNo + 1] = img]]
  ELSE [err |-> "", file |-> f \o [n \in 1..(pageNo - Len(f)) |-> ZeroImage] \o <<img>>]

\* ------------------------------------------------------------------------
\* Page Manager (src/page.go:226-385)
\* ------------------------------------------------------------------------
\* mutant: NextPageId is left at the zero value
NewPageManager_MutZeroNext == [NextPageId |-> U64(0), PageCount |-> U64(0), LastPageId |-> U64(1)]

\* the metadata of NewPageManager
NewPageManager == [NextPageId |-> U64(1), PageCount |-> U64(0), LastPageId |-> U64(1)]

\* mutant: LastPageId is not moved to the page just allocated
CreatePage_MutLastStale(meta) ==
  [page |-> NewPage(meta.NextPageId),
   meta |-> [NextPageId |-> IncU64(meta.NextPageId),
             PageCount |-> IncU64(meta.PageCount),
             LastPageId |-> meta.LastPageId]]

CreatePage(meta) ==
  [page |-> NewPage(meta.NextPageId),
   meta |-> [NextPageId |-> IncU64(meta.NextPageId),
             PageCount |-> IncU64(meta.PageCount),
             LastPageId |-> meta.NextPageId]]

LoadMetaPage(meta, f, rf) ==
  LET r == DiskRead(f, 0, rf)
  IN IF r.err # "" THEN [err |-> r.err, meta |-> meta]
     ELSE [err |-> "",
           meta |-> [NextPageId |-> GetU64(r.buf, 0),
                     PageCount |-> GetU64(r.buf, 8),
                     LastPageId |-> GetU64(r.buf, 16)]]

\* mutant: NextPageId and LastPageId are encoded in each other's place
MetaImage_MutOrder(meta) ==
  Put(Put(Put(ZeroImage, 0, LE64(meta.LastPageId)), 8, LE64(meta.PageCount)),
      16, LE64(meta.NextPageId))

\* the 4096-byte buffer of SaveMetaDataPage
MetaImage(meta) ==
  Put(Put(Put(ZeroImage, 0, LE64(meta.NextPageId)), 8, LE64(meta.PageCount)),
      16, LE64(meta.LastPageId))

SaveMetaDataPage(f, meta, fail) == DiskWrite(f, 0, MetaImage(meta), fail)

LoadPage(f, pageId, rf) ==
  LET r == DiskRead(f, pageId, rf)
  IN IF r.err # "" THEN [err |-> r.err, page |-> NewPage(U64(0))]
     ELSE [err |-> "",
           page |-> [PageId |-> GetU64(r.buf, 0),
                     Count |-> GetU32(r.buf, 8),
                     FreeSpace |-> GetU16(r.buf, 12),
                     DataStart |-> GetU16(r.buf, 14),
                     Ptr |-> Slice(r.buf, HeaderSize, PageSize - HeaderSize)]]

\* mutant: FreeSpace and DataStart are encoded in each other's place
PageImage_MutSwap(p) ==
  Put(Put(Put(Put(Put(ZeroImage, 0, LE64(p.PageId)), 8, LE32(p.Count)),
              12, LE16(p.DataStart)), 14, LE16(p.FreeSpace)),
      HeaderSize, p.Ptr)
\* the 4096-byte buffer of writePageToDisk
PageImage(p) ==
  Put(Put(Put(Put(Put(ZeroImage, 0, LE64(p.PageId)), 8, LE32(p.Count)),
              12, LE16(p.FreeSpace)), 14, LE16(p.DataStart)),
      HeaderSize, p.Ptr)

\* writePageToDisk: the block number is page.PageId; a page id that does not
\* fit 16 bits is outside the model and reported as an error of its own
writePageToDisk(f, p, fail) ==
  IF ~SmallU64(p.PageId) THEN [err |-> "offset outside the model", file |-> f]
  ELSE DiskWrite(f, p.PageId[1], PageImage(p), fail)

\* the loop of findPageWithSpace from pageId on.  Every read at or past the
\* end of the file fails, so the loop is cut short there.
RECURSIVE FindSpaceFrom(_, _, _, _, _)
\* mutant: the scan stops one page short of LastPageId
FindSpaceFrom_MutExclusive(meta, f, recordSize, rf, pageId) ==
  IF pageId >= Len(f) \/ ~LeqU64(pageId + 1, meta.LastPageId)
    THEN [err |-> "no page with enough space", page |-> NewPage(U64(0))]
  ELSE LET r == LoadPage(f, pageId, rf)
       IN IF r.err # "" THEN FindSpaceFrom(meta, f, recordSize, rf, pageId + 1)
          ELSE IF HasSpace(r.page, recordSize) THEN [err |-> "", page |-> r.page]
          ELSE FindSpaceFrom(meta, f, recordSize, rf, pageId + 1)
FindSpaceFrom(meta, f, recordSize, rf, pageId) ==
  IF pageId >= Len(f) \/ ~LeqU64(pageId, meta.LastPageId)
    THEN [err |-> "no page with enough space", page |-> NewPage(U64(0))]
  ELSE LET r == LoadPage(f, pageId, rf)
       IN IF r.err # "" THEN FindSpaceFrom(meta, f, recordSize, rf, pageId + 1)
          ELSE IF HasSpace(r.page, recordSize) THEN [err |-> "", page |-> r.page]
          ELSE FindSpaceFrom(meta, f, recordSize, rf, pageId + 1)

findPageWithSpace(meta, f, recordSize, rf) == FindSpaceFrom(meta, f, recordSize, rf, 1)

\* the loop of FindRecord from pageId on
RECURSIVE FindFrom(_, _, _, _, _)
FindFrom(meta, f, key, rf, pageId) ==
  IF pageId >= Len(f) \/ ~LeqU64(pageId, meta.LastPageId)
    THEN [value |-> <<>>, err |-> "key not found"]
  ELSE LET r == LoadPage(f, pageId, rf)
       IN IF r.err # "" THEN FindFrom(meta, f, key, rf, pageId + 1)
          ELSE LET rr == ReadRecord(r.page, key)
               IN IF rr.found THEN [value |-> rr.value, err |-> ""]
                  ELSE FindFrom(meta, f, key, rf, pageId + 1)

FindRecord(meta, f, key, rf) == FindFrom(meta, f, key, rf, 1)

\* the labels of the Block Store writes of one InsertRecord call
WriteLabels == {"page", "meta", "final"}

\* PageManager.InsertRecord on metadata meta and file f; rf are the blocks
\* whose read fails and wf the writes that fail during the call.  The result
\* holds the returned error, the metadata and the file afterwards, the ids
\* returned by CreatePage, the id of the page the record was written to and
\* the Block Store writes in the order they were issued.
InsertRecord(meta, f, key, value, rf, wf) ==
  LET recordSize == KeySize + ValueSize + Len(key) + Len(value)
      found == findPageWithSpace(meta, f, recordSize, rf)
      cp == CreatePage(meta)
      w1 == writePageToDisk(f, cp.page, "page" \in wf)
      w2 == SaveMetaDataPage(w1.file, cp.meta, "meta" \in wf)
      alloc == found.err # ""
      pageWithSpace == IF alloc THEN cp.page ELSE found.page
      meta1 == IF alloc THEN cp.meta ELSE meta
      f1 == IF alloc THEN w2.file ELSE f
      created == IF alloc THEN <<cp.page.PageId>> ELSE <<>>
      log1 == IF alloc
                THEN <<[kind |-> "data", id |-> cp.page.PageId, label |-> "page", err |-> w1.err],
                       [kind |-> "meta", id |-> U64(0), label |-> "meta", err |-> w2.err]>>
                ELSE <<>>
      wr == WriteRecord(pageWithSpace, key, value)
      w3 == writePageToDisk(f1, wr.page, "final" \in wf)
  IN IF alloc /\ w1.err # ""
       THEN [err |-> w1.err, meta |-> cp.meta, file |-> f, created |-> created,
             target |-> <<>>, writes |-> <<log1[1]>>]
     ELSE IF wr.err # ""
       THEN [err |-> wr.err, meta |-> meta1, file |-> f1, created |-> created,
             target |-> <<>>, writes |-> log1]
     ELSE [err |-> w3.err, meta |-> meta1, file |-> w3.file, created |-> created,
           target |-> <<wr.page.PageId>>,
           writes |-> Append(log1, [kind |-> "data", id |-> wr.page.PageId,
                                    label |-> "final", err |-> w3.err])]

\* ------------------------------------------------------------------------
\* State
\* ------------------------------------------------------------------------
VARIABLES
  page,      \* a Page value in memory, written and read directly
  file,      \* the backing file of the Block Store
  MetaData,  \* PageManager.MetaData
  hist,      \* the successful writes / inserts so far: [key, value, page]
  ret,       \* the last operation, its inputs and what it returned
  nops,      \* writes to the page and inserts so far
  nother,    \* those of them whose input was not the filler record
  nfaults,   \* inserts and reopens so far that injected an I/O failure
  allocs,    \* the page ids returned by CreatePage so far, in order
  proc       \* per caller: where its InsertRecord call stands, and its locals

vars == <<page, file, MetaData, hist, ret, nops, nother, nfaults, allocs, proc>>

NoRet ==
  [op |-> "none", key |-> <<>>, value |-> <<>>, err |-> "", val |-> <<>>,
   found |-> FALSE, created |-> <<>>, target |-> <<>>, writes |-> <<>>, faults |-> <<>>]

\* the callers of the Page Manager
Procs == {1, 2}

\* a caller that is not inside InsertRecord
Idle ==
  [pc |-> "idle", in |-> <<>>, pageId |-> 0, pg |-> <<>>, created |-> <<>>, writes |-> <<>>]

\* the state after NewDisk on a fresh file, NewPageManager, and a fresh Page
Init ==
  /\ page = NewPage(U64(1))
  /\ file = <<>>
  /\ MetaData = NewPageManager
  /\ hist = <<>>
  /\ ret = NoRet
  /\ nops = 0
  /\ nother = 0
  /\ nfaults = 0
  /\ allocs = <<>>
  /\ proc = [p \in Procs |-> Idle]

Count(in) == IF in = Filler THEN 0 ELSE 1

\* ------------------------------------------------------------------------
\* Operations on one Page
\* ------------------------------------------------------------------------
DoWriteRecord(in) ==
  LET r == WriteRecord(page, Str(in[1]), Str(in[2]))
  IN /\ page' = r.page
     /\ hist' = IF r.err = "" THEN Append(hist, [key |-> in[1], value |-> in[2], page |-> page.PageId])
                ELSE hist
     /\ ret' = [NoRet EXCEPT !.op = "write", !.key = <<in[1]>>, !.value = <<in[2]>>, !.err = r.err]
     /\ nops' = nops + 1
     /\ nother' = nother + Count(in)
     /\ UNCHANGED <<file, MetaData, nfaults, allocs, proc>>

DoReadRecord(k) ==
  LET r == ReadRecord(page, Str(k))
  IN /\ ret' = [NoRet EXCEPT !.op = "read", !.key = <<k>>, !.val = r.value, !.found = r.found]
     /\ UNCHANGED <<page, file, MetaData, hist, nops, nother, nfaults, allocs, proc>>

WriteFiller == nops < MaxOps /\ DoWriteRecord(Filler)
WriteOther == nops < MaxOps /\ nother < MaxOther /\ \E in \in Inputs \ {Filler} : DoWriteRecord(in)
Read == \E k \in Keys : DoReadRecord(k)

NextPage == WriteFiller \/ WriteOther \/ Read

SpecPage == Init /\ [][NextPage]_vars

\* ------------------------------------------------------------------------
\* Operations of the Page Manager
\* ------------------------------------------------------------------------
DoInsertRecord(in, rf, wf) ==
  LET r == InsertRecord(MetaData, file, Str(in[1]), Str(in[2]), rf, wf)
  IN /\ file' = r.file
     /\ MetaData' = r.meta
     /\ hist' = IF r.err = "" THEN Append(hist, [key |-> in[1], value |-> in[2], page |-> r.target[1]])
                ELSE hist
     /\ ret' = [NoRet EXCEPT !.op = "insert", !.key = <<in[1]>>, !.value = <<in[2]>>,
                             !.err = r.err, !.created = r.created, !.target = r.target,
                             !.writes = r.writes]
     /\ nops' = nops + 1
     /\ nother' = nother + Count(in)
     /\ nfaults' = nfaults + (IF rf = {} /\ wf = {} THEN 0 ELSE 1)
     /\ allocs' = allocs \o r.created
     /\ UNCHANGED <<page, proc>>

DoFindRecord(k, rf) ==
  LET r == FindRecord(MetaData, file, Str(k), rf)
  IN /\ ret' = [NoRet EXCEPT !.op = "find", !.key = <<k>>, !.err = r.err, !.val = r.value,
                             !.faults = <<rf>>]
     /\ UNCHANGED <<page, file, MetaData, hist, nops, nother, nfaults, allocs, proc>>

\* NewDatabase over the same file: NewPageManager, then LoadMetaPage with its
\* error dropped
DoReopen(rf) ==
  /\ MetaData' = LoadMetaPage(NewPageManager, file, rf).meta
  /\ ret' = [NoRet EXCEPT !.op = "reopen", !.faults = <<rf>>]
  /\ nfaults' = nfaults + (IF rf = {} THEN 0 ELSE 1)
  /\ UNCHANGED <<page, file, hist, nops, nother, allocs, proc>>

\* runs without Block Store failures
InsertFiller == nops < MaxOps /\ DoInsertRecord(Filler, {}, {})
InsertOther == nops < MaxOps /\ nother < MaxOther /\ \E in \in Inputs \ {Filler} : DoInsertRecord(in, {}, {})
Find == \E k \in Keys : DoFindRecord(k, {})
Reopen == DoReopen({})

Next == InsertFiller \/ InsertOther \/ Find \/ Reopen

Spec == Init /\ [][Next]_vars

\* runs with Block Store failures: each read of a block in rf and each write
\* labelled in wf fails during the call
InputsIO == {<<KA, VA>>, <<KB, VB>>}
ReadFaults == SUBSET (1..2)
\* the failing writes of one call: none, one of them, or metadata and final
WriteFaults == {{}, {"page"}, {"meta"}, {"final"}, {"meta", "final"}}

InsertIO ==
  /\ nops < MaxOpsIO
  /\ \E in \in InputsIO, rf \in {{}, {1}}, wf \in WriteFaults :
       /\ (rf # {} \/ wf # {}) => nfaults < MaxFaults
       /\ DoInsertRecord(in, rf, wf)
FindIO == \E k \in {KA, KB}, rf \in ReadFaults : DoFindRecord(k, rf)
ReopenIO ==
  /\ \E rf \in {{}, {0}} : (rf # {} => nfaults < MaxFaults) /\ DoReopen(rf)

NextIO == InsertIO \/ FindIO \/ ReopenIO

SpecIO == Init /\ [][NextIO]_vars

\* ------------------------------------------------------------------------
\* InsertRecord step by step (src/page.go:314-336): one step per Block Store
\* read or write, each taken together with the computation in memory that
\* follows it; CreatePage is two steps, the read of NextPageId into the new
\* Page and the three assignments to the metadata.
\* ------------------------------------------------------------------------
InputsStep == {<<KA, VA>>, <<KB, VB>>}
\* three keys, KB a prefix of KA, inserted with one value
InputsConc == {<<KA, VB>>, <<KB, VB>>, <<KC, VB>>}

\* the entry of the write log for a write of block id
Logged(kind, id, label, err) == [kind |-> kind, id |-> id, label |-> label, err |-> err]

\* the call of caller p returns err
Return(p, err, target, writes) ==
  LET c == proc[p]
  IN /\ proc' = [proc EXCEPT ![p] = Idle]
     /\ hist' = IF err = ""
                  THEN Append(hist, [key |-> c.in[1][1], value |-> c.in[1][2], page |-> target[1]])
                  ELSE hist
     /\ ret' = [NoRet EXCEPT !.op = "insert", !.key = <<c.in[1][1]>>, !.value = <<c.in[1][2]>>,
                             !.err = err, !.created = c.created, !.target = target,
                             !.writes = writes]

\* InsertRecord is entered and the loop of findPageWithSpace begins
CallInsertRecord(p, in) ==
  /\ proc[p].pc = "idle"
  /\ proc' = [proc EXCEPT ![p] = [Idle EXCEPT !.pc = IF LeqU64(1, MetaData.LastPageId)
                                                       THEN "scan" ELSE "create",
                                              !.in = <<in>>, !.pageId = 1]]
  /\ nops' = nops + 1
  /\ nother' = nother + Count(in)
  /\ UNCHANGED <<page, file, MetaData, hist, ret, nfaults, allocs>>

\* one iteration of the loop of findPageWithSpace: LoadPage(pageId), HasSpace,
\* pageId++ and the loop test; fail injects a failure of the read
ScanStep(p, fail) ==
  LET c == proc[p]
      recordSize == KeySize + ValueSize + c.in[1][1].len + c.in[1][2].len
      r == LoadPage(file, c.pageId, IF fail THEN {c.pageId} ELSE {})
  IN /\ c.pc = "scan"
     /\ fail => c.pageId < Len(file)
     /\ proc' = [proc EXCEPT ![p] =
                   IF r.err = "" /\ HasSpace(r.page, recordSize)
                     THEN [c EXCEPT !.pc = "store", !.pg = <<r.page>>]
                   ELSE IF LeqU64(c.pageId + 1, MetaData.LastPageId)
                     THEN [c EXCEPT !.pageId = c.pageId + 1]
                   ELSE [c EXCEPT !.pc = "create"]]
     /\ nfaults' = nfaults + (IF fail THEN 1 ELSE 0)
     /\ UNCHANGED <<page, file, MetaData, hist, ret, nops, nother, allocs>>

\* CreatePage, page.go:240-245: the new Page takes NextPageId
CreatePageRead(p) ==
  /\ proc[p].pc = "create"
  /\ proc' = [proc EXCEPT ![p].pc = "bump", ![p].pg = <<CreatePage(MetaData).page>>]
  /\ UNCHANGED <<page, file, MetaData, hist, ret, nops, nother, nfaults, allocs>>

\* CreatePage, page.go:247-251: the metadata is advanced and the page returned
CreatePageUpdate(p) ==
  /\ proc[p].pc = "bump"
  /\ MetaData' = CreatePage(MetaData).meta
  /\ allocs' = Append(allocs, proc[p].pg[1].PageId)
  /\ proc' = [proc EXCEPT ![p].pc = "writeNew", ![p].created = <<proc[p].pg[1].PageId>>]
  /\ UNCHANGED <<page, file, hist, ret, nops, nother, nfaults>>

\* page.go:321-324: the new empty page is written; an error is returned
WriteNewPage(p, fail) ==
  LET w == writePageToDisk(file, proc[p].pg[1], fail)
      log == Append(proc[p].writes, Logged("data", proc[p].pg[1].PageId, "page", w.err))
  IN /\ proc[p].pc = "writeNew"
     /\ file' = w.file
     /\ IF w.err # "" THEN Return(p, w.err, <<>>, log)
        ELSE /\ proc' = [proc EXCEPT ![p].pc = "saveMeta", ![p].writes = log]
             /\ UNCHANGED <<hist, ret>>
     /\ nfaults' = nfaults + (IF fail THEN 1 ELSE 0)
     /\ UNCHANGED <<page, MetaData, nops, nother, allocs>>

\* page.go:327: SaveMetaDataPage, its error dropped
SaveMeta(p, fail) ==
  LET w == SaveMetaDataPage(file, MetaData, fail)
  IN
  /\ proc[p].pc = "saveMeta"
  /\ file' = w.file
  /\ proc' = [proc EXCEPT ![p].pc = "store",
                          ![p].writes = Append(@, Logged("meta", U64(0), "meta", w.err))]
  /\ nfaults' = nfaults + (IF fail THEN 1 ELSE 0)
  /\ UNCHANGED <<page, MetaData, hist, ret, nops, nother, allocs>>

\* page.go:330-335: WriteRecord on the caller's Page, then writePageToDisk,
\* and InsertRecord returns
WriteRecordAndPersist(p, fail) ==
  LET c == proc[p]
      wr == WriteRecord(c.pg[1], Str(c.in[1][1]), Str(c.in[1][2]))
      w == writePageToDisk(file, wr.page, fail)
  IN /\ c.pc = "store"
     /\ IF wr.err # ""
          THEN /\ ~fail
               /\ Return(p, wr.err, <<>>, c.writes)
               /\ UNCHANGED file
          ELSE /\ file' = w.file
               /\ Return(p, w.err, <<wr.page.PageId>>,
                         Append(c.writes, Logged("data", wr.page.PageId, "final", w.err)))
     /\ nfaults' = nfaults + (IF fail THEN 1 ELSE 0)
     /\ UNCHANGED <<page, MetaData, nops, nother, allocs>>

\* one caller, whose Block Store reads and writes can fail
StepCall ==
  /\ nops < MaxCalls
  /\ \E in \in InputsStep : (in # Filler => nother < MaxOther) /\ CallInsertRecord(1, in)
StepScan == \E fail \in BOOLEAN : (fail => nfaults < MaxFaults) /\ ScanStep(1, fail)
StepCreate == CreatePageRead(1)
StepUpdate == CreatePageUpdate(1)
StepWriteNew == \E fail \in BOOLEAN : (fail => nfaults < MaxFaults) /\ WriteNewPage(1, fail)
StepSaveMeta == \E fail \in BOOLEAN : (fail => nfaults < MaxFaults) /\ SaveMeta(1, fail)
StepStore == \E fail \in BOOLEAN : (fail => nfaults < MaxFaults) /\ WriteRecordAndPersist(1, fail)
StepFind == proc[1].pc = "idle" /\ DoFindRecord(KB, {})

NextStep ==
  \/ StepCall \/ StepScan \/ StepCreate \/ StepUpdate
  \/ StepWriteNew \/ StepSaveMeta \/ StepStore \/ StepFind

SpecStep == Init /\ [][NextStep]_vars

\* two callers of one Page Manager whose steps interleave; no I/O failures
ConcCall == nops < MaxConc /\ \E p \in Procs, in \in InputsConc : CallInsertRecord(p, in)
ConcScan == \E p \in Procs : ScanStep(p, FALSE)
ConcCreate == \E p \in Procs : CreatePageRead(p)
ConcUpdate == \E p \in Procs : CreatePageUpdate(p)
ConcWriteNew == \E p \in Procs : WriteNewPage(p, FALSE)
ConcSaveMeta == \E p \in Procs : SaveMeta(p, FALSE)
ConcStore == \E p \in Procs : WriteRecordAndPersist(p, FALSE)

NextConc ==
  \/ ConcCall \/ ConcScan \/ ConcCreate \/ ConcUpdate
  \/ ConcWriteNew \/ ConcSaveMeta \/ ConcStore

SpecConc == Init /\ [][NextConc]_vars

\* ------------------------------------------------------------------------
\* Properties
\* ------------------------------------------------------------------------
\* the positions of hist that hold key k, and the earliest of them
KeyIdx(k) == {i \in 1..Len(hist) : hist[i].key = k}
FirstIdx(k) == CHOOSE i \in KeyIdx(k) : \A j \in KeyIdx(k) : i <= j

\* FindRecord(k) on the current manager and file, no read failing
Lookup(k) == FindRecord(MetaData, file, Str(k), {})

\* C1: without Block Store failures, a key that was inserted successfully
\* exactly once is found with the value it was inserted with, in every later
\* state, whatever other keys were inserted (or failed to be) meanwhile,
\* page allocations included.
C1_InsertedOnceFound ==
  \A k \in Keys :
    Cardinality(KeyIdx(k)) = 1 =>
      Lookup(k) = [value |-> Str(hist[FirstIdx(k)].value), err |-> ""]

\* KB was inserted once into page 1, and later inserts of other keys
\* exhausted page 1 and went to a newly allocated page 2
C1_Witness ==
  /\ Cardinality(KeyIdx(KB)) = 1
  /\ hist[FirstIdx(KB)].page = U64(1)
  /\ FirstIdx(KB) < Len(hist)
  /\ hist[Len(hist)].page = U64(2)
  /\ ret.op = "insert" /\ ret.created = <<U64(2)>>

\* C2 (as claimed): without Block Store failures every InsertRecord whose
\* key and value are at most 400 bytes long returns success.
C2_Original ==
  (/\ ret.op = "insert"
   /\ ret.key[1].len <= MaxKeyBytes
   /\ ret.value[1].len <= MaxValueBytes) => ret.err = ""

\* C3 (as claimed): a key inserted successfully more than once is found with
\* the value of its earliest insert.
C3_Original ==
  \A k \in Keys :
    KeyIdx(k) # {} => Lookup(k) = [value |-> Str(hist[FirstIdx(k)].value), err |-> ""]

\* C3 (amended): a key inserted successfully more than once is found with
\* the value of its earliest insert provided no later insert of that key was
\* placed on a page with a lower id than the page of the earliest one.
C3_EarliestUnlessLowerPage ==
  \A k \in Keys :
    (/\ KeyIdx(k) # {}
     /\ \A j \in KeyIdx(k) : hist[j].page[1] >= hist[FirstIdx(k)].page[1])
      => Lookup(k) = [value |-> Str(hist[FirstIdx(k)].value), err |-> ""]

\* a key was inserted with one value into page 1 and later with another
\* value into page 2
C3_Witness ==
  \E i, j \in 1..Len(hist) :
    /\ i < j
    /\ hist[i].key = hist[j].key
    /\ hist[i].value # hist[j].value
    /\ i = FirstIdx(hist[i].key)
    /\ hist[i].page = U64(1)
    /\ hist[j].page = U64(2)

\* C4 (as claimed): an InsertRecord one of whose Block Store writes failed
\* returns an error.
C4_Original ==
  (ret.op = "insert" /\ \E n \in 1..Len(ret.writes) : ret.writes[n].err # "")
    => ret.err # ""

\* the manager NewDatabase builds over the current file
Reopened == LoadMetaPage(NewPageManager, file, {}).meta

\* C5: without Block Store failures, in every state a manager reopened over
\* the file has the metadata of the manager in memory and finds, for every
\* key, what the manager in memory finds.
C5_ReopenEquivalent ==
  /\ Reopened = MetaData
  /\ \A k \in Keys : FindRecord(Reopened, file, Str(k), {}) = Lookup(k)

\* the store was reopened after two pages were created, and finds KB
C5_Witness ==
  /\ ret.op = "reopen"
  /\ MetaData.PageCount = U64(2)
  /\ Lookup(KB).err = ""

\* C6 (as claimed): no page returned by CreatePage has id 0, and no data
\* page image is written to block 0.
C6_Original ==
  ret.op = "insert" =>
    /\ \A n \in 1..Len(ret.created) : ret.created[n] # U64(0)
    /\ \A n \in 1..Len(ret.writes) :
         ret.writes[n].kind = "data" => ret.writes[n].id # U64(0)

\* the sum over the slots 0..n-1 of slot.len + SlotArrSize
RECURSIVE SlotSum(_, _)
SlotSum(p, n) ==
  IF n = 0 THEN 0 ELSE SlotSum(p, n - 1) + GetSlot(p, n - 1).len + SlotArrSize

C8_Original ==
  (ret.op = "write" /\ ret.err = "") =>
    ReadRecord(page, Str(ret.key[1])) = [value |-> Str(ret.value[1]), found |-> TRUE]

\* C8 (amended): after a successful WriteRecord(k, v), ReadRecord(k) on the
\* page returns (w, true) where w is the value of the earliest successful
\* write of k to the page; w is v when the page held no record of k before.
C8_WriteThenRead ==
  (ret.op = "write" /\ ret.err = "") =>
    ReadRecord(page, Str(ret.key[1])) =
      [value |-> Str(hist[FirstIdx(ret.key[1])].value), found |-> TRUE]

\* a successful write of a key the page did not hold, after other writes
C8_Witness ==
  /\ ret.op = "write" /\ ret.err = ""
  /\ Len(hist) >= 3
  /\ FirstIdx(ret.key[1]) = Len(hist)

\* C9: a WriteRecord that returns an error (key or value too long, not
\* enough space) leaves every field and every byte of the page unchanged.
C9_FailedWriteKeepsPage ==
  [][(ret'.op = "write" /\ ret'.err # "") => page' = page]_vars

\* a write was rejected for lack of space by a page holding records
C9_Witness ==
  /\ ret.op = "write" /\ ret.err = "not enough space"
  /\ page.Count > 0

\* C10 (as claimed): when FindRecord(k) returns "key not found", no page in
\* 1..LastPageId of the file holds an active record with key k.
C10_Original ==
  (ret.op = "find" /\ ret.err = "key not found") => Lookup(ret.key[1]).err # ""

\* C11: without Block Store failures, in every state FindRecord(k) returns
\* "key not found" and no value for a key that was never inserted
\* successfully (on the empty store: for every key), and a value it returns
\* for any key is the value of a successful insert of exactly that key.
C11_NoInventedMatch ==
  \A k \in Keys :
    /\ KeyIdx(k) = {} => Lookup(k) = [value |-> <<>>, err |-> "key not found"]
    /\ Lookup(k).err = "" => \E i \in KeyIdx(k) : Lookup(k).value = Str(hist[i].value)

\* KB was looked up and not found in a store of two pages that holds KA, of
\* which KB is a prefix, and never held KB
C11_Witness ==
  /\ ret.op = "find" /\ ret.key = <<KB>> /\ ret.err = "key not found"
  /\ KeyIdx(KB) = {} /\ KeyIdx(KA) # {}
  /\ MetaData.LastPageId = U64(2)

\* C12: a page made by CreatePage and successful WriteRecord calls, written
\* by writePageToDisk and loaded again by LoadPage(page.PageId) without I/O
\* failure, comes back with the same PageId, Count, FreeSpace, DataStart and
\* Ptr; the image lies in the block at offset PageId * 4096, the last block
\* of a file that was empty.
C12_RoundTrip ==
  LET w == writePageToDisk(file, page, FALSE)
  IN /\ w.err = ""
     /\ Len(w.file) = page.PageId[1] + 1
     /\ LoadPage(w.file, page.PageId[1], {}) = [err |-> "", page |-> page]

\* a page of at least three records whose record region reaches below
\* offset 2000
C12_Witness ==
  /\ ret.op = "write" /\ ret.err = ""
  /\ page.Count >= 3
  /\ page.DataStart < 2000

Fits(recordSize) ==
  {p \in 1..(Len(file) - 1) :
     LeqU64(p, MetaData.LastPageId) /\ GetU16(file[p + 1], 12) >= recordSize}

\* C14: without Block Store failures, an InsertRecord of a record of
\* recordSize = 4 + len(key) + len(value) bytes works on the lowest page of
\* 1..LastPageId whose stored FreeSpace >= recordSize and creates no page;
\* when there is no such page it creates the page NextPageId and works on
\* that; it writes no other data page.
C14_FirstFit ==
  [][ret'.op = "insert" =>
       LET recordSize == KeySize + ValueSize + ret'.key[1].len + ret'.value[1].len
           fits == Fits(recordSize)
           chosen == IF fits = {} THEN MetaData.NextPageId
                     ELSE U64(CHOOSE p \in fits : \A q \in fits : p <= q)
       IN /\ ret'.created = (IF fits = {} THEN <<chosen>> ELSE <<>>)
          /\ ret'.target \in {<<>>, <<chosen>>}
          /\ \A n \in 1..Len(ret'.writes) :
               ret'.writes[n].kind = "data" => ret'.writes[n].id = chosen
          /\ \A b \in 1..(Len(file) - 1) : U64(b) # chosen => file'[b + 1] = file[b + 1]
    ]_vars

\* a record went to page 1 although page 2 existed
C14_Witness ==
  /\ ret.op = "insert" /\ ret.err = ""
  /\ ret.target = <<U64(1)>> /\ ret.created = <<>>
  /\ MetaData.LastPageId = U64(2)
\* C15: on the manager made over the empty store, the ids returned by
\* CreatePage are 1, 2, 3, ... in this order; once a page was created
\* LastPageId is the id returned last, NextPageId is one more and PageCount
\* is the number of pages created; and the metadata in memory changes in no
\* step but the one of CreatePage that returns the next id (LoadMetaPage
\* runs only when a manager is made).
C15_Allocation ==
  /\ [](/\ allocs = [i \in 1..Len(allocs) |-> U64(i)]
        /\ allocs # <<>> =>
             MetaData = [NextPageId |-> U64(Len(allocs) + 1),
                         PageCount |-> U64(Len(allocs)),
                         LastPageId |-> U64(Len(allocs))])
  /\ [][MetaData' # MetaData => allocs' = Append(allocs, MetaData.NextPageId)]_vars

\* two pages were created, the second by a call that then returned success
C15_Witness ==
  /\ Len(allocs) = 2
  /\ ret.op = "insert" /\ ret.err = "" /\ ret.created = <<U64(2)>>

\* C16 (as claimed): the Block Store writes of an InsertRecord that creates
\* a page are, in this order, the new empty page, the metadata page and the
\* new page with the record; and in every state between two writes, once
\* block 0 holds a metadata page, every block 1..LastPageId (as stored in
\* block 0) of the file holds the image of the page with that id.
C16_Original ==
  /\ (ret.op = "insert" /\ ret.created # <<>>) =>
       \A n \in 1..Len(ret.writes) :
         /\ ret.writes[n].label = <<"page", "meta", "final">>[n]
         /\ ret.writes[n].id = (IF n = 2 THEN U64(0) ELSE ret.created[1])
  /\ (Len(file) > 0 /\ file[1] # ZeroImage) =>
       \A b \in 1..GetU64(file[1], 16)[1] :
         b < Len(file) /\ GetU64(file[b + 1], 0) = U64(b)

\* C17: when a caller's InsertRecord persists its page with success although
\* the block of that page changed on disk since the caller read it (or wrote
\* it as a new page), and the keys inserted with success so far are pairwise
\* different, then right after that write either two pages returned by
\* CreatePage have one id, or the caller's own record is found and the
\* record of another call that returned success is not.
C17_LostUpdate ==
  [][\A p \in Procs :
       (/\ proc[p].pc = "store" /\ proc'[p].pc = "idle"
        /\ Len(hist') = Len(hist) + 1
        /\ proc[p].pg[1].PageId[1] < Len(file)
        /\ file[proc[p].pg[1].PageId[1] + 1] # PageImage(proc[p].pg[1])
        /\ \A i, j \in 1..Len(hist') : hist'[i].key = hist'[j].key => i = j)
       =>
         \/ \E i, j \in 1..Len(allocs') : i < j /\ allocs'[i] = allocs'[j]
         \/ /\ FindRecord(MetaData', file', Str(proc[p].in[1][1]), {})
                 = [value |-> Str(proc[p].in[1][2]), err |-> ""]
            /\ \E i \in 1..Len(hist) :
                 FindRecord(MetaData', file', Str(hist[i].key), {}).err = "key not found"
    ]_vars

\* both callers have returned, three inserts returned success, no page id
\* was handed out twice, and the record of one insert is not found
C17_Witness ==
  /\ \A p \in Procs : proc[p].pc = "idle"
  /\ Len(hist) = 3
  /\ \A i, j \in 1..Len(allocs) : allocs[i] = allocs[j] => i = j
  /\ \E i \in 1..Len(hist) : Lookup(hist[i].key).err = "key not found"

\* C18 (as claimed): an InsertRecord that returns an error leaves the
\* metadata in memory and every block of the file, metadata page and data
\* pages, as they were before the call.
C18_Original ==
  [][(ret'.op = "insert" /\ ret'.err # "") => (MetaData' = MetaData /\ file' = file)]_vars

\* the page stored in block b of file f, as LoadPage decodes it
Stored(f, b) == LoadPage(f, b, {}).page

\* C19 (as claimed): a successful InsertRecord changes no data page of the
\* file but the one it wrote the record to, changes block 0 only when it
\* created a page, and leaves the slot entries and the record bytes that
\* page held before as they were; FindRecord changes neither the file nor
\* the metadata.
C19_Original ==
  [][/\ (ret'.op = "insert" /\ ret'.err = "") =>
          LET t == ret'.target[1][1]
              old == Stored(file, t)
              new == Stored(file', t)
          IN /\ \A b \in 1..(Len(file) - 1) : b # t => file'[b + 1] = file[b + 1]
             /\ (Len(file) > 0 /\ t # 0 /\ ret'.created = <<>>) => file'[1] = file[1]
             /\ (t < Len(file) /\ old.Count > 0) =>
                  /\ Slice(new.Ptr, 0, old.Count * SlotArrSize)
                       = Slice(old.Ptr, 0, old.Count * SlotArrSize)
                  /\ Slice(new.Ptr, old.DataStart, PageSize - HeaderSize - old.DataStart)
                       = Slice(old.Ptr, old.DataStart, PageSize - HeaderSize - old.DataStart)
     /\ ret'.op = "find" => (file' = file /\ MetaData' = MetaData)
    ]_vars

====
